---- MODULE Spec2Model ----
(***************************************************************************)
(* A model of the vk request-dispatch core (src/vk/router.go,              *)
(* src/vk/middleware.go).                                                  *)
(*                                                                         *)
(* Spec     : the router's life cycle. Routes are added to the root        *)
(*            RouteGroup, classic handlers are registered with HandleHTTP, *)
(*            several tasks call Finalize (sync.Once, one hrouter.Handle   *)
(*            per step of mountGroup's loop) and requests are dispatched   *)
(*            by ServeHTTP.                                                *)
(* PipeSpec : one request through the handle httpHandlerWrap built for a   *)
(*            mounted route: context, start log line, websocket upgrade,   *)
(*            middleware, terminal handler, deferred afterware,            *)
(*            resolution, content type, the writes, completion log line.   *)
(* WrapSpec : WrapHandler's loop over its middleware arguments, and a       *)
(*            request through the handler it returns.                      *)
(* ConcSpec : several requests at once in the handle of one mounted route, *)
(*            each with the Context and the ResponseWriter of its call.    *)
(***************************************************************************)
EXTENDS Naturals, Sequences, FiniteSets

\* ------------------------------------------------------------------ bounds

\* routes in the root RouteGroup's expanded list
MaxRoutes == 2
\* middleware and afterware of a route
MaxMiddleware == 2
MaxAfterware == 2
\* tasks that call Finalize
NumTasks == 2
\* middleware arguments of WrapHandler
MaxWrap == 3
\* requests in flight at once
MaxRequests == 2

\* ------------------------------------------------------------ value sets

\* methods a route can be registered under, and methods a request can carry
RouteMethods == {"GET", "POST"}
ReqMethods == RouteMethods \cup {"OPTIONS"}
\* "/a" and "/a/" differ only in the trailing slash
Paths == {"/a", "/a/"}
Keys == RouteMethods \X Paths
\* the (method, path) pairs classic handlers are registered for
ClassicKeys == {<<"GET", "/a">>}

\* the fallback argument of NewRouter: empty, one url.Parse rejects, one it accepts
Fallbacks == {"", ":bad", "http://upstream"}

Tasks == 1..NumTasks

NoHandler == [kind |-> "none", route |-> 0]
ClassicHandler == [kind |-> "classic", route |-> 0]
VkHandler(i) == [kind |-> "vk", route |-> i]

NoResponse ==
    [turn |-> 0, method |-> "", path |-> "", handler |-> NoHandler, handlerCalls |-> 0,
     proxyCalls |-> 0, proxyMethod |-> "", proxyPath |-> "",
     fallthroughCalls |-> 0, status |-> 0]

\* requests in flight
Reqs == 1..MaxRequests

\* WrapHandler has not been called
NoWrap == [pc |-> "none", mw |-> <<>>, i |-> 0, handler |-> <<>>, depth |-> 0, trace |-> <<>>]

\* no request is in flight
NoReqs == [r \in Reqs |-> [pc |-> "none", ctx |-> 0]]
NoHeaders == [r \in Reqs |-> {}]

VARIABLES
    fallback,      \* the fallback string NewRouter was given
    fallbackProxy, \* Router.fallbackProxy # nil
    group,         \* the root RouteGroup, as the list httpRouteHandlers() yields
    hrouter,       \* Router.hrouter: (method, path) -> registered handle
    quietRoutes,   \* Router.quietRoutes
    onceDone,      \* finalizeOnce.done
    onceM,         \* finalizeOnce.m: 0 when free, else the task that holds it
    pc,            \* where each task is in Finalize, or how its latest call ended
    idx,           \* each task's position in mountGroup's loop
    mountRuns,     \* how many times the function given to finalizeOnce.Do started
    mountCount,    \* per route of the group: hrouter.Handle calls mountGroup made for it
    resp,          \* what the latest ServeHTTP did (turn flips with every request)
    route,         \* the mounted route a request is running through, and the request
    rq,            \* the locals of the httpHandlerWrap closure and of the handlers it calls
    w,             \* the http.ResponseWriter of the request
    events,        \* what has happened to the request, in order
    wrap,          \* WrapHandler: its arguments, its loop, and a request through its result
    reqs,          \* concurrent requests: where each is, and the Context it holds
    ctxs,          \* the Contexts allocated so far
    hdrs           \* concurrent requests: the header map of each one's ResponseWriter

\* the request's variables
pvars == <<route, rq, w, events>>

\* the variables of WrapHandler and of the concurrent requests
xvars == <<wrap, reqs, ctxs, hdrs>>

vars ==
    <<fallback, fallbackProxy, group, hrouter, quietRoutes, onceDone, onceM, pc,
      idx, mountRuns, mountCount, resp, pvars, xvars>>

\* ------------------------------------------------------- a request's values

\* what a handler can return as its value (a TypedResponse with its status unset
\* or set, bytes, a value JSON encodes, one it cannot encode, nil) and as its error
Values == {"nil", "bytes", "struct", "unencodable", "response", "response201"}
Errors == {"nil", "typed", "generic"}

\* the Content-Type a middleware, a handler and an afterware set when they set one
MwCType == "text/csv"
HandlerCType == "text/html"
AwCType == "image/png"

\* no request is running
NoRoute == [ws |-> FALSE, nmw |-> 0, naw |-> 0, method |-> "", path |-> ""]

\* the locals before the closure httpHandlerWrap returned has been called
IdleRq ==
    [pc |-> "idle", logFn |-> "", upgraded |-> FALSE, mwi |-> 0, awi |-> 0,
     panicking |-> FALSE, val |-> "nil", err |-> "nil", errStatus |-> 0, errMsg |-> "",
     status |-> 0, body |-> "", detectedCType |-> "", headerAtReturn |-> "",
     innerVal |-> "nil", innerErr |-> "nil"]

\* a ResponseWriter nothing has been written to
NewWriter ==
    [contentType |-> "", statusWrites |-> 0, bodyWrites |-> 0, status |-> 0,
     body |-> "", sentContentType |-> ""]

Event(e, n, t) == [ev |-> e, n |-> n, s |-> t]

\* --------------------------------------------------------------- NewRouter

\* url.Parse: nil on a parse error
UrlParse(s) == IF s = ":bad" THEN "nil" ELSE s

\* NewRouter without the proxyURL != nil test
NewRouterProxy_NoNilCheck(s) == s # ""

\* NewRouter: a proxy only for a non-empty fallback that url.Parse accepts
NewRouterProxy(s) == IF s # "" THEN UrlParse(s) # "nil" ELSE FALSE

Init ==
    /\ fallback \in Fallbacks
    /\ fallbackProxy = NewRouterProxy(fallback)
    /\ group = <<>>
    /\ hrouter = [k \in Keys |-> NoHandler]
    /\ quietRoutes = {}
    /\ onceDone = FALSE
    /\ onceM = 0
    /\ pc = [t \in Tasks |-> "idle"]
    /\ idx = [t \in Tasks |-> 0]
    /\ mountRuns = 0
    /\ mountCount = [i \in 1..MaxRoutes |-> 0]
    /\ resp = NoResponse
    /\ route = NoRoute
    /\ rq = IdleRq
    /\ w = NewWriter
    /\ events = <<>>
    /\ wrap = NoWrap
    /\ reqs = NoReqs
    /\ ctxs = <<>>
    /\ hdrs = NoHeaders

\* no task is inside mountGroup's loop
NotMounting == \A t \in Tasks : pc[t] # "mount"

\* ------------------------------------------------------------- RouteGroup

\* RouteGroup.AddRoute: append a route; the group is mutable only before
\* finalization
AddRoute(m, p) ==
    /\ ~onceDone
    /\ \A t \in Tasks : pc[t] \in {"idle"}
    /\ Len(group) < MaxRoutes
    /\ group' = Append(group, [method |-> m, path |-> p])
    /\ UNCHANGED <<fallback, fallbackProxy, hrouter, quietRoutes, onceDone, onceM,
                   pc, idx, mountRuns, mountCount, resp>>
    /\ UNCHANGED <<pvars, xvars>>

\* ----------------------------------------------------------------- hrouter

\* httprouter.Router.Lookup: the handle registered for (method, path)
Lookup(m, p) == IF <<m, p>> \in Keys THEN hrouter[<<m, p>>] ELSE NoHandler

\* httprouter.Router.Handle panics when (method, path) already has a handle
HandleConflicts(m, p) == hrouter[<<m, p>>] # NoHandler

\* Router.canHandle
canHandle(m, p) == Lookup(m, p) # NoHandler

\* HandleHTTP on a matcher that overwrites the handle a (method, path) already has
HandleHTTP_Overwrite(m, p) ==
    /\ NotMounting
    /\ hrouter' = [hrouter EXCEPT ![<<m, p>>] = ClassicHandler]
    /\ UNCHANGED <<fallback, fallbackProxy, group, quietRoutes, onceDone, onceM,
                   pc, idx, mountRuns, mountCount, resp>>
    /\ UNCHANGED <<pvars, xvars>>

\* Router.HandleHTTP: register a classic handler straight into hrouter
HandleHTTP(m, p) ==
    /\ NotMounting
    /\ hrouter' = IF HandleConflicts(m, p) THEN hrouter
                  ELSE [hrouter EXCEPT ![<<m, p>>] = ClassicHandler]
    /\ UNCHANGED <<fallback, fallbackProxy, group, quietRoutes, onceDone, onceM,
                   pc, idx, mountRuns, mountCount, resp>>
    /\ UNCHANGED <<pvars, xvars>>

\* ----------------------------------------------------------------- Finalize

\* Finalize with a Once of its own for every call: done is clear whenever a call
\* starts
FinalizeCall_NoOnce(t) ==
    /\ pc[t] \in {"idle", "mounted", "noop"}
    /\ pc' = [pc EXCEPT ![t] = "slow"]
    /\ onceDone' = FALSE
    /\ UNCHANGED <<fallback, fallbackProxy, group, hrouter, quietRoutes,
                   onceM, idx, mountRuns, mountCount, resp>>
    /\ UNCHANGED <<pvars, xvars>>

\* Finalize -> finalizeOnce.Do: the unlocked read of done; a call that finds it
\* set returns at once, any other goes on to doSlow
FinalizeCall(t) ==
    /\ pc[t] \in {"idle", "mounted", "noop"}
    /\ pc' = [pc EXCEPT ![t] = IF onceDone THEN "noop" ELSE "slow"]
    /\ UNCHANGED <<fallback, fallbackProxy, group, hrouter, quietRoutes, onceDone,
                   onceM, idx, mountRuns, mountCount, resp>>
    /\ UNCHANGED <<pvars, xvars>>

\* doSlow without the second read of done
FinalizeLock_NoRecheck(t) ==
    /\ pc[t] = "slow"
    /\ onceM = 0
    /\ pc' = [pc EXCEPT ![t] = "mount"]
    /\ onceM' = t
    /\ idx' = [idx EXCEPT ![t] = 1]
    /\ mountRuns' = mountRuns + 1
    /\ UNCHANGED <<fallback, fallbackProxy, group, hrouter, quietRoutes, onceDone,
                   mountCount, resp>>
    /\ UNCHANGED <<pvars, xvars>>

\* doSlow: take finalizeOnce.m, read done again; only a caller that still finds it
\* clear runs mountGroup, holding the mutex
FinalizeLock(t) ==
    /\ pc[t] = "slow"
    /\ onceM = 0
    /\ IF onceDone
       THEN /\ pc' = [pc EXCEPT ![t] = "noop"]
            /\ UNCHANGED <<onceM, idx, mountRuns>>
       ELSE /\ pc' = [pc EXCEPT ![t] = "mount"]
            /\ onceM' = t
            /\ idx' = [idx EXCEPT ![t] = 1]
            /\ mountRuns' = mountRuns + 1
    /\ UNCHANGED <<fallback, fallbackProxy, group, hrouter, quietRoutes, onceDone,
                   mountCount, resp>>
    /\ UNCHANGED <<pvars, xvars>>

\* mountGroup's loop with the last route of the list left out
MountRoute_SkipLast(t) ==
    /\ pc[t] = "mount"
    /\ idx[t] <= Len(group)
    /\ LET r == group[idx[t]] IN
       /\ mountCount' = [mountCount EXCEPT ![idx[t]] = @ + 1]
       /\ IF idx[t] < Len(group) /\ HandleConflicts(r.method, r.path)
          THEN /\ pc' = [pc EXCEPT ![t] = "panicked"]
               /\ onceDone' = TRUE
               /\ onceM' = 0
               /\ UNCHANGED <<hrouter, idx>>
          ELSE /\ hrouter' = IF idx[t] < Len(group)
                             THEN [hrouter EXCEPT ![<<r.method, r.path>>] = VkHandler(idx[t])]
                             ELSE hrouter
               /\ idx' = [idx EXCEPT ![t] = @ + 1]
               /\ UNCHANGED <<pc, onceDone, onceM>>
    /\ UNCHANGED <<fallback, fallbackProxy, group, quietRoutes, mountRuns, resp>>
    /\ UNCHANGED <<pvars, xvars>>

\* one turn of mountGroup's loop: hrouter.Handle(r.Method, r.Path, ...). Handle
\* panics on a (method, path) that already has a handle; the panic leaves the loop,
\* and Once's deferred calls still set done and release the mutex
MountRoute(t) ==
    /\ pc[t] = "mount"
    /\ idx[t] <= Len(group)
    /\ LET r == group[idx[t]] IN
       /\ mountCount' = [mountCount EXCEPT ![idx[t]] = @ + 1]
       /\ IF HandleConflicts(r.method, r.path)
          THEN /\ pc' = [pc EXCEPT ![t] = "panicked"]
               /\ onceDone' = TRUE
               /\ onceM' = 0
               /\ UNCHANGED <<hrouter, idx>>
          ELSE /\ hrouter' = [hrouter EXCEPT ![<<r.method, r.path>>] = VkHandler(idx[t])]
               /\ idx' = [idx EXCEPT ![t] = @ + 1]
               /\ UNCHANGED <<pc, onceDone, onceM>>
    /\ UNCHANGED <<fallback, fallbackProxy, group, quietRoutes, mountRuns, resp>>
    /\ UNCHANGED <<pvars, xvars>>

\* mountGroup's loop is over: done is stored, the mutex released, Finalize returns
MountDone(t) ==
    /\ pc[t] = "mount"
    /\ idx[t] > Len(group)
    /\ pc' = [pc EXCEPT ![t] = "mounted"]
    /\ onceDone' = TRUE
    /\ onceM' = 0
    /\ UNCHANGED <<fallback, fallbackProxy, group, hrouter, quietRoutes, idx,
                   mountRuns, mountCount, resp>>
    /\ UNCHANGED <<pvars, xvars>>

\* ---------------------------------------------------------------- ServeHTTP

\* the path that differs from p in its trailing slash only ("" when none)
TrailingSlashTwin(p) ==
    CASE p = "/a" -> "/a/"
      [] p = "/a/" -> "/a"
      [] OTHER -> ""

\* httprouter's allowed(path, reqMethod): the other methods, OPTIONS left out, that
\* have a handle for path
Allowed(m, p) == {o \in RouteMethods \ {m, "OPTIONS"} : hrouter[<<o, p>>] # NoHandler}

\* hrouter.ServeHTTP for a request Lookup found no handle for, with the settings of
\* httprouter.New(): a redirect to the trailing-slash twin when that is registered
\* for the method, the Allow reply to OPTIONS, 405 when another method is
\* registered for the path, 404 otherwise
hrouterServeHTTP(m, p) ==
    IF /\ m \in RouteMethods
       /\ m # "CONNECT"
       /\ p # "/"
       /\ TrailingSlashTwin(p) # ""
       /\ Lookup(m, TrailingSlashTwin(p)) # NoHandler
    THEN (IF m = "GET" THEN 301 ELSE 308)
    ELSE IF m = "OPTIONS"
         THEN (IF Allowed(m, p) # {} THEN 200 ELSE 404)
         ELSE (IF Allowed(m, p) # {} THEN 405 ELSE 404)

\* ServeHTTP with the else branch run after the handle as well
Dispatch_NoElse(m, p) ==
    LET handler == Lookup(m, p)
        base == [NoResponse EXCEPT !.turn = 1 - resp.turn, !.method = m, !.path = p]
        hit == IF handler # NoHandler
               THEN [base EXCEPT !.handler = handler, !.handlerCalls = 1]
               ELSE base
    IN  IF fallbackProxy
        THEN [hit EXCEPT !.proxyCalls = 1, !.proxyMethod = m, !.proxyPath = p]
        ELSE [hit EXCEPT !.fallthroughCalls = 1, !.status = hrouterServeHTTP(m, p)]

\* Router.ServeHTTP: the handle when Lookup finds one, else the fallback proxy when
\* there is one, else hrouter's own fallthrough
Dispatch(m, p) ==
    LET handler == Lookup(m, p)
        base == [NoResponse EXCEPT !.turn = 1 - resp.turn, !.method = m, !.path = p]
    IN  IF handler # NoHandler
        THEN [base EXCEPT !.handler = handler, !.handlerCalls = 1]
        ELSE IF fallbackProxy
             THEN [base EXCEPT !.proxyCalls = 1, !.proxyMethod = m, !.proxyPath = p]
             ELSE [base EXCEPT !.fallthroughCalls = 1,
                               !.status = hrouterServeHTTP(m, p)]

ServeHTTP(m, p) ==
    /\ NotMounting
    /\ resp' = Dispatch(m, p)
    /\ UNCHANGED <<fallback, fallbackProxy, group, hrouter, quietRoutes, onceDone,
                   onceM, pc, idx, mountRuns, mountCount>>
    /\ UNCHANGED <<pvars, xvars>>

\* ------------------------------------------------------------ useQuietRoutes

\* Router.useQuietRoutes: every listed route becomes quiet
useQuietRoutes(routes) ==
    /\ quietRoutes' = quietRoutes \cup {routes[i] : i \in 1..Len(routes)}
    /\ UNCHANGED <<fallback, fallbackProxy, group, hrouter, onceDone, onceM, pc,
                   idx, mountRuns, mountCount, resp>>
    /\ UNCHANGED <<pvars, xvars>>

\* ---------------------------------------------------------------------- Spec

QuietArgs == {<<>>} \cup {<<p>> : p \in {"/a"}}

Next ==
    \/ \E m \in RouteMethods, p \in Paths : AddRoute(m, p)
    \/ \E k \in ClassicKeys : HandleHTTP(k[1], k[2])
    \/ \E t \in Tasks : FinalizeCall(t)
    \/ \E t \in Tasks : FinalizeLock(t)
    \/ \E t \in Tasks : MountRoute(t)
    \/ \E t \in Tasks : MountDone(t)
    \/ \E m \in ReqMethods, p \in Paths : ServeHTTP(m, p)
    \/ \E routes \in QuietArgs : useQuietRoutes(routes)

Spec == Init /\ [][Next]_vars

\* ------------------------------------------------------------ the request

\* the router's variables
rvars ==
    <<fallback, fallbackProxy, group, hrouter, quietRoutes, onceDone, onceM, pc,
      idx, mountRuns, mountCount, resp>>

\* A router whose Finalize has mounted one route, http or websocket, with its
\* middleware and afterware, and a request ServeHTTP has found that route's handle
\* for.
PipeInit ==
    /\ route \in [ws : BOOLEAN, nmw : 0..MaxMiddleware, naw : 0..MaxAfterware,
                  method : {"GET"}, path : {"/a"}]
    /\ fallback = ""
    /\ fallbackProxy = NewRouterProxy(fallback)
    /\ group = <<[method |-> route.method, path |-> route.path]>>
    /\ hrouter = [k \in Keys |->
                    IF k = <<route.method, route.path>> THEN VkHandler(1) ELSE NoHandler]
    /\ quietRoutes \in {{}, {"/a"}}
    /\ onceDone = TRUE
    /\ onceM = 0
    /\ pc = [t \in Tasks |-> IF t = 1 THEN "mounted" ELSE "idle"]
    /\ idx = [t \in Tasks |-> IF t = 1 THEN 2 ELSE 0]
    /\ mountRuns = 1
    /\ mountCount = [i \in 1..MaxRoutes |-> IF i = 1 THEN 1 ELSE 0]
    /\ resp = [NoResponse EXCEPT !.turn = 1, !.method = route.method,
                                 !.path = route.path, !.handler = VkHandler(1),
                                 !.handlerCalls = 1]
    /\ rq = IdleRq
    /\ w = NewWriter
    /\ events = <<>>
    /\ wrap = NoWrap
    /\ reqs = NoReqs
    /\ ctxs = <<>>
    /\ hdrs = NoHeaders

\* the middleware loop left after its first turn
AfterMiddleware_FirstOnly(i) == IF i > 1 \/ i > route.nmw THEN "inner" ELSE "mw"

\* where the augmented handler goes once middleware 1..i-1 have passed
AfterMiddleware(i) == IF i > route.nmw THEN "inner" ELSE "mw"

\* httpHandlerWrap's closure starts: NewCtx and UseScope(defaultScope{RequestID})
NewCtx ==
    /\ rq.pc = "idle"
    /\ rq' = [rq EXCEPT !.pc = "log"]
    /\ events' = Append(events, Event("ctx", 0, ""))
    /\ UNCHANGED <<rvars, xvars, route, w>>

\* logRequest: Info, or Debug for a quiet route; the start line is logged and the
\* same function is kept for the completion line
logRequest ==
    /\ rq.pc = "log"
    /\ LET logFn == IF route.path \in quietRoutes THEN "debug" ELSE "info" IN
       /\ rq' = [rq EXCEPT !.logFn = logFn,
                           !.mwi = 1,
                           !.pc = IF route.ws THEN "upgrade" ELSE AfterMiddleware(1)]
       /\ events' = Append(events, Event("logStart", 0, logFn))
    /\ UNCHANGED <<rvars, xvars, route, w>>

\* errorOrOtherToBytes: a TypedError gives its status and message, any other error
\* 500 and its text
errorOrOtherToBytes(kind, st, msg) ==
    IF kind = "typed"
    THEN [status |-> st, body |-> msg, ctype |-> "text/plain"]
    ELSE [status |-> 500, body |-> msg, ctype |-> "text/plain"]

\* responseOrOtherToBytes: a TypedResponse gives its status (200 when unset) and
\* body, bytes go as they are, another value as JSON, nil as an empty body; the
\* worst case, a value with no JSON encoding, is a 500 with a generic message
responseOrOtherToBytes(val) ==
    CASE val = "response" -> [status |-> 200, body |-> "resp", ctype |-> ""]
      [] val = "response201" -> [status |-> 201, body |-> "resp", ctype |-> ""]
      [] val = "bytes" -> [status |-> 200, body |-> "raw", ctype |-> ""]
      [] val = "struct" -> [status |-> 200, body |-> "{json}", ctype |-> "application/json"]
      [] val = "unencodable" ->
             [status |-> 500, body |-> "Internal Server Error", ctype |-> "text/plain"]
      [] OTHER -> [status |-> 200, body |-> "", ctype |-> ""]

\* wsHandlerWrap calling the inner handler whatever the upgrade returned
Upgrade_IgnoreError(ok) ==
    /\ rq.pc = "upgrade"
    /\ rq' = [rq EXCEPT !.upgraded = ok, !.pc = AfterMiddleware(1)]
    /\ events' = events \o <<Event("upgrade", 0, IF ok THEN "ok" ELSE "failed"),
                              Event("wsInner", 0, "conn")>>
    /\ UNCHANGED <<rvars, xvars, route, w>>

\* wsHandlerWrap: the upgrade. When it fails the handler returns
\* (nil, E(status, body)) of the resolved upgrade error and the inner handler is
\* not called; when it succeeds the inner (augmented) websocket handler is called
Upgrade(ok) ==
    /\ rq.pc = "upgrade"
    /\ LET e == errorOrOtherToBytes("generic", 0, "bad handshake") IN
       rq' = IF ok
             THEN [rq EXCEPT !.upgraded = TRUE, !.pc = AfterMiddleware(1)]
             ELSE [rq EXCEPT !.val = "nil", !.err = "typed", !.errStatus = e.status,
                             !.errMsg = e.body, !.headerAtReturn = w.contentType,
                             !.pc = "resolve"]
    /\ events' = IF ok
                 THEN events \o <<Event("upgrade", 0, "ok"), Event("wsInner", 0, "conn")>>
                 ELSE Append(events, Event("upgrade", 0, "failed"))
    /\ UNCHANGED <<rvars, xvars, route, w>>

\* a panic in a middleware or in the inner handler: the deferred function of the
\* augmented handler runs the afterware while the panic unwinds
Unwind_NoDefer(r) == [r EXCEPT !.panicking = TRUE, !.pc = "aborted"]

Unwind(r) == [r EXCEPT !.panicking = TRUE, !.awi = 1, !.pc = "after"]

\* the augmented handler returns (val, err): its deferred function runs first
Return(r, val, err, st, msg) ==
    [r EXCEPT !.val = val, !.err = err, !.errStatus = st, !.errMsg = msg,
              !.awi = 1, !.pc = "after"]

\* a middleware whose error does not stop the chain
RunMiddleware_NoShortCircuit(out) ==
    /\ rq.pc = "mw"
    /\ rq.mwi <= route.nmw
    /\ rq' = CASE out = "panic" -> Unwind(rq)
               [] OTHER -> [rq EXCEPT !.mwi = @ + 1, !.pc = AfterMiddleware(rq.mwi + 1)]
    /\ w' = IF out = "setCT" THEN [w EXCEPT !.contentType = MwCType] ELSE w
    /\ events' = Append(events, Event("mw", rq.mwi, out))
    /\ UNCHANGED <<rvars, xvars, route>>

\* one turn of the middleware loop of augmentHttpHandler / augmentWsHandler: the
\* middleware passes (having set the Content-Type header or not), returns an error,
\* which is returned with a nil value, or panics
RunMiddleware(out) ==
    /\ rq.pc = "mw"
    /\ rq.mwi <= route.nmw
    /\ rq' = CASE out = "err" -> Return(rq, "nil", "typed", 403, "forbidden")
               [] out = "panic" -> Unwind(rq)
               [] OTHER -> [rq EXCEPT !.mwi = @ + 1, !.pc = AfterMiddleware(rq.mwi + 1)]
    /\ w' = IF out = "setCT" THEN [w EXCEPT !.contentType = MwCType] ELSE w
    /\ events' = Append(events, Event("mw", rq.mwi, out))
    /\ UNCHANGED <<rvars, xvars, route>>

\* the terminal handler: it returns a value and an error (a websocket handler an
\* error only), having set the Content-Type header or not
RunInner(val, err, setCT) ==
    /\ rq.pc = "inner"
    /\ route.ws => val = "nil"
    /\ rq' = [Return(rq, val, err,
                     IF err = "typed" THEN 404 ELSE 0,
                     CASE err = "typed" -> "not found"
                       [] err = "generic" -> "boom"
                       [] OTHER -> "")
              EXCEPT !.innerVal = val, !.innerErr = err]
    /\ w' = IF setCT THEN [w EXCEPT !.contentType = HandlerCType] ELSE w
    /\ events' = Append(events, Event("inner", 0, IF setCT THEN "setCT" ELSE "returned"))
    /\ UNCHANGED <<rvars, xvars, route>>

\* the terminal handler panics
PanicInner ==
    /\ rq.pc = "inner"
    /\ rq' = Unwind(rq)
    /\ events' = Append(events, Event("inner", 0, "panic"))
    /\ UNCHANGED <<rvars, xvars, route, w>>

\* one turn of the deferred afterware loop
RunAfterware(setCT) ==
    /\ rq.pc = "after"
    /\ rq.awi <= route.naw
    /\ rq' = [rq EXCEPT !.awi = @ + 1]
    /\ w' = IF setCT THEN [w EXCEPT !.contentType = AwCType] ELSE w
    /\ events' = Append(events, Event("aw", rq.awi, IF setCT THEN "setCT" ELSE "ok"))
    /\ UNCHANGED <<rvars, xvars, route>>

\* the deferred function is over: the augmented handler's result reaches
\* httpHandlerWrap (through wsHandlerWrap for a websocket route), or the panic goes
\* on through httpHandlerWrap and ServeHTTP, which do not recover
AugmentedReturn ==
    /\ rq.pc = "after"
    /\ rq.awi > route.naw
    /\ rq' = IF rq.panicking
             THEN [rq EXCEPT !.pc = "aborted"]
             ELSE [rq EXCEPT !.headerAtReturn = w.contentType, !.pc = "resolve"]
    /\ UNCHANGED <<rvars, xvars, route, w, events>>

\* the value is resolved whenever there is one, the error only without a value
Resolve_ValueFirst ==
    /\ rq.pc = "resolve"
    /\ LET res == IF rq.val # "nil"
                  THEN responseOrOtherToBytes(rq.val)
                  ELSE IF rq.err # "nil"
                       THEN errorOrOtherToBytes(rq.err, rq.errStatus, rq.errMsg)
                       ELSE responseOrOtherToBytes(rq.val)
       IN  rq' = [rq EXCEPT !.status = res.status, !.body = res.body,
                            !.detectedCType = res.ctype, !.pc = "ctype"]
    /\ events' = Append(events,
                        Event(IF rq.val = "nil" /\ rq.err # "nil"
                              THEN "resolveError" ELSE "resolveValue", 0, ""))
    /\ UNCHANGED <<rvars, xvars, route, w>>

\* httpHandlerWrap: the error is resolved when there is one, else the value
Resolve ==
    /\ rq.pc = "resolve"
    /\ LET res == IF rq.err # "nil"
                  THEN errorOrOtherToBytes(rq.err, rq.errStatus, rq.errMsg)
                  ELSE responseOrOtherToBytes(rq.val)
       IN  rq' = [rq EXCEPT !.status = res.status, !.body = res.body,
                            !.detectedCType = res.ctype, !.pc = "ctype"]
    /\ events' = Append(events,
                        Event(IF rq.err # "nil" THEN "resolveError" ELSE "resolveValue",
                              0, ""))
    /\ UNCHANGED <<rvars, xvars, route, w>>

\* the Content-Type header is set to the detected type whatever it holds
SetContentType_Always ==
    /\ rq.pc = "ctype"
    /\ w' = [w EXCEPT !.contentType = rq.detectedCType]
    /\ rq' = [rq EXCEPT !.pc = "writeHeader"]
    /\ events' = Append(events, Event("contentType", 0, ""))
    /\ UNCHANGED <<rvars, xvars, route>>

\* httpHandlerWrap: the detected type is used only when the Content-Type header
\* is empty
SetContentType ==
    /\ rq.pc = "ctype"
    /\ LET headerCType == w.contentType
           shouldSetCType == headerCType = ""
       IN  w' = IF shouldSetCType THEN [w EXCEPT !.contentType = rq.detectedCType] ELSE w
    /\ rq' = [rq EXCEPT !.pc = "writeHeader"]
    /\ events' = Append(events, Event("contentType", 0, ""))
    /\ UNCHANGED <<rvars, xvars, route>>

\* the body written before the status
WriteHeader_AfterBody ==
    /\ rq.pc = "writeHeader"
    /\ w' = [w EXCEPT !.bodyWrites = @ + 1, !.body = rq.body,
                      !.statusWrites = @ + 1, !.status = rq.status,
                      !.sentContentType = w.contentType]
    /\ rq' = [rq EXCEPT !.pc = "logDone"]
    /\ events' = events \o <<Event("write", 0, rq.body), Event("writeHeader", rq.status, "")>>
    /\ UNCHANGED <<rvars, xvars, route>>

\* w.WriteHeader(http.StatusOK) whatever status was resolved
WriteHeader_StatusOK ==
    /\ rq.pc = "writeHeader"
    /\ w' = [w EXCEPT !.statusWrites = @ + 1, !.status = 200,
                      !.sentContentType = w.contentType]
    /\ rq' = [rq EXCEPT !.pc = "write"]
    /\ events' = Append(events, Event("writeHeader", 200, ""))
    /\ UNCHANGED <<rvars, xvars, route>>

\* w.WriteHeader(status): the header set goes out with the status
WriteHeader ==
    /\ rq.pc = "writeHeader"
    /\ w' = [w EXCEPT !.statusWrites = @ + 1, !.status = rq.status,
                      !.sentContentType = w.contentType]
    /\ rq' = [rq EXCEPT !.pc = "write"]
    /\ events' = Append(events, Event("writeHeader", rq.status, ""))
    /\ UNCHANGED <<rvars, xvars, route>>

\* w.Write(body)
Write ==
    /\ rq.pc = "write"
    /\ w' = [w EXCEPT !.bodyWrites = @ + 1, !.body = rq.body]
    /\ rq' = [rq EXCEPT !.pc = "logDone"]
    /\ events' = Append(events, Event("write", 0, rq.body))
    /\ UNCHANGED <<rvars, xvars, route>>

\* a completion line that looks the path up in quietRoutes again
logDone_Recheck ==
    /\ rq.pc = "logDone"
    /\ rq' = [rq EXCEPT !.pc = "done"]
    /\ events' = Append(events,
                        Event("logDone", rq.status,
                              IF route.path \in quietRoutes THEN "debug" ELSE "info"))
    /\ UNCHANGED <<rvars, xvars, route, w>>

\* logDone(status): the completion line, through the function logRequest chose
logDone ==
    /\ rq.pc = "logDone"
    /\ rq' = [rq EXCEPT !.pc = "done"]
    /\ events' = Append(events, Event("logDone", rq.status, rq.logFn))
    /\ UNCHANGED <<rvars, xvars, route, w>>

\* The steps of one request; routes can be marked quiet while it runs (logRequest
\* is its only read of quietRoutes).
PipeNext ==
    \/ NewCtx
    \/ logRequest
    \/ \E ok \in BOOLEAN : Upgrade(ok)
    \/ \E out \in {"ok", "setCT", "err", "panic"} : RunMiddleware(out)
    \/ \E val \in Values, err \in Errors, setCT \in BOOLEAN : RunInner(val, err, setCT)
    \/ PanicInner
    \/ \E setCT \in BOOLEAN : RunAfterware(setCT)
    \/ AugmentedReturn
    \/ Resolve
    \/ SetContentType
    \/ WriteHeader
    \/ Write
    \/ logDone
    \/ \E routes \in QuietArgs : useQuietRoutes(routes)

PipeSpec == PipeInit /\ [][PipeNext]_vars

\* ------------------------------------------------------------- WrapHandler

\* The variadic middleware argument: TRUE is a Middleware, FALSE a nil entry. A
\* Middleware is told from the others by its position in the list. A handler is
\* the sequence of its layers, outermost first: positions of the list, then 0,
\* the handler WrapHandler was given.
MwLists == UNION {[1..n -> BOOLEAN] : n \in 0..MaxWrap}

\* WrapHandler has been called with a handler and a list of middleware
WrapInit ==
    /\ wrap \in {[NoWrap EXCEPT !.pc = "loop", !.mw = l, !.i = 1, !.handler = <<0>>] :
                    l \in MwLists}
    /\ fallback = ""
    /\ fallbackProxy = NewRouterProxy(fallback)
    /\ group = <<>>
    /\ hrouter = [k \in Keys |-> NoHandler]
    /\ quietRoutes = {}
    /\ onceDone = FALSE
    /\ onceM = 0
    /\ pc = [t \in Tasks |-> "idle"]
    /\ idx = [t \in Tasks |-> 0]
    /\ mountRuns = 0
    /\ mountCount = [i \in 1..MaxRoutes |-> 0]
    /\ resp = NoResponse
    /\ route = NoRoute
    /\ rq = IdleRq
    /\ w = NewWriter
    /\ events = <<>>
    /\ reqs = NoReqs
    /\ ctxs = <<>>
    /\ hdrs = NoHeaders

\* a loop that puts each middleware inside the ones before it, next to the core
WrapLoop_InsideOut ==
    /\ wrap.pc = "loop"
    /\ wrap.i <= Len(wrap.mw)
    /\ wrap' = [wrap EXCEPT !.i = @ + 1,
                            !.handler = IF wrap.mw[wrap.i]
                                        THEN SubSeq(@, 1, Len(@) - 1) \o <<wrap.i, 0>>
                                        ELSE @]
    /\ UNCHANGED <<rvars, pvars, reqs, ctxs, hdrs>>

\* one turn of WrapHandler's loop: handler = m(handler) for a non-nil m
WrapLoop ==
    /\ wrap.pc = "loop"
    /\ wrap.i <= Len(wrap.mw)
    /\ wrap' = [wrap EXCEPT !.i = @ + 1,
                            !.handler = IF wrap.mw[wrap.i] THEN <<wrap.i>> \o @ ELSE @]
    /\ UNCHANGED <<rvars, pvars, reqs, ctxs, hdrs>>

\* WrapHandler returns handler
WrapReturn ==
    /\ wrap.pc = "loop"
    /\ wrap.i > Len(wrap.mw)
    /\ wrap' = [wrap EXCEPT !.pc = "returned"]
    /\ UNCHANGED <<rvars, pvars, reqs, ctxs, hdrs>>

\* the handler WrapHandler returned is called with a request
WrapServe ==
    /\ wrap.pc = "returned"
    /\ wrap' = [wrap EXCEPT !.pc = "serving", !.depth = 1]
    /\ UNCHANGED <<rvars, pvars, reqs, ctxs, hdrs>>

\* the request enters the next layer: a middleware's handler, which calls the
\* handler it wraps (as ContentTypeMiddleware and CORSMiddleware do) or returns
\* without calling it, or the core handler
WrapLayer(calls) ==
    /\ wrap.pc = "serving"
    /\ LET layer == wrap.handler[wrap.depth] IN
       wrap' = [wrap EXCEPT !.trace = Append(@, layer),
                            !.depth = @ + 1,
                            !.pc = IF layer = 0 \/ ~calls THEN "served" ELSE "serving"]
    /\ UNCHANGED <<rvars, pvars, reqs, ctxs, hdrs>>

WrapNext ==
    \/ WrapLoop
    \/ WrapReturn
    \/ WrapServe
    \/ \E calls \in BOOLEAN : WrapLayer(calls)

WrapSpec == WrapInit /\ [][WrapNext]_vars

\* ------------------------------------------------------ concurrent requests

\* what a middleware or a handler writes, tagged with the request it handles
HeaderOf(r) == <<"X-Request", r>>
ScopeOf(r) == <<"custom", r>>

\* NewCtx: a new Context with a request id of its own and the header map it is
\* given; UseScope(defaultScope{RequestID}) seeds its scope from that id
FreshCtx(id, headers) ==
    [requestID |-> id, scope |-> <<"request_id", id>>, headers |-> headers]

\* Several requests have reached the handle httpHandlerWrap built for one mounted
\* route, each in its own goroutine with its own ResponseWriter.
ConcInit ==
    /\ reqs = [r \in Reqs |-> [pc |-> "idle", ctx |-> 0]]
    /\ ctxs = <<>>
    /\ hdrs = NoHeaders
    /\ wrap = NoWrap
    /\ fallback = ""
    /\ fallbackProxy = NewRouterProxy(fallback)
    /\ group = <<[method |-> "GET", path |-> "/a"]>>
    /\ hrouter = [k \in Keys |-> IF k = <<"GET", "/a">> THEN VkHandler(1) ELSE NoHandler]
    /\ quietRoutes = {}
    /\ onceDone = TRUE
    /\ onceM = 0
    /\ pc = [t \in Tasks |-> IF t = 1 THEN "mounted" ELSE "idle"]
    /\ idx = [t \in Tasks |-> IF t = 1 THEN 2 ELSE 0]
    /\ mountRuns = 1
    /\ mountCount = [i \in 1..MaxRoutes |-> IF i = 1 THEN 1 ELSE 0]
    /\ resp = NoResponse
    /\ route = NoRoute
    /\ rq = IdleRq
    /\ w = NewWriter
    /\ events = <<>>

\* a Context kept across invocations: made by the first, used by every later one
ConcNewCtx_Shared(r) ==
    /\ reqs[r].pc = "idle"
    /\ ctxs' = IF ctxs = <<>> THEN <<FreshCtx(1, r)>> ELSE ctxs
    /\ reqs' = [reqs EXCEPT ![r] = [pc |-> "chain", ctx |-> 1]]
    /\ UNCHANGED <<rvars, pvars, wrap, hdrs>>

\* httpHandlerWrap's closure is called for request r:
\* ctx := NewCtx(rt.log, params, w.Header()); ctx.UseScope(defaultScope{ctx.RequestID()})
ConcNewCtx(r) ==
    /\ reqs[r].pc = "idle"
    /\ ctxs' = Append(ctxs, FreshCtx(Len(ctxs) + 1, r))
    /\ reqs' = [reqs EXCEPT ![r] = [pc |-> "chain", ctx |-> Len(ctxs) + 1]]
    /\ UNCHANGED <<rvars, pvars, wrap, hdrs>>

\* the chain of request r sets a response header through its Context
\* (ctx.RespHeaders.Set)
ConcSetHeader(r) ==
    /\ reqs[r].pc = "chain"
    /\ LET ctx == ctxs[reqs[r].ctx] IN
       hdrs' = [hdrs EXCEPT ![ctx.headers] = @ \cup {HeaderOf(r)}]
    /\ UNCHANGED <<rvars, pvars, wrap, reqs, ctxs>>

\* the chain of request r replaces the scope of its Context (ctx.UseScope)
ConcUseScope(r) ==
    /\ reqs[r].pc = "chain"
    /\ ctxs' = [ctxs EXCEPT ![reqs[r].ctx].scope = ScopeOf(r)]
    /\ UNCHANGED <<rvars, pvars, wrap, reqs, hdrs>>

\* the chain of request r returns and the response is written with the headers of
\* its ResponseWriter
ConcWrite(r) ==
    /\ reqs[r].pc = "chain"
    /\ reqs' = [reqs EXCEPT ![r].pc = "done"]
    /\ UNCHANGED <<rvars, pvars, wrap, ctxs, hdrs>>

ConcNext ==
    \E r \in Reqs :
        \/ ConcNewCtx(r)
        \/ ConcSetHeader(r)
        \/ ConcUseScope(r)
        \/ ConcWrite(r)

ConcSpec == ConcInit /\ [][ConcNext]_vars

\* ------------------------------------------------------- claims on the router

Key(r) == <<r.method, r.path>>

\* no Finalize call has started
BeforeFinalize == ~onceDone /\ \A t \in Tasks : pc[t] = "idle"

\* the latest Finalize call of task t has returned
Returned(t) == pc[t] \in {"mounted", "noop"}

\* some Finalize call has returned
FinalizeReturned == \E t \in Tasks : Returned(t)

\* the function given to finalizeOnce.Do left by a panic
MountPanicked == \E t \in Tasks : pc[t] = "panicked"

\* every route of the root group has its handle in hrouter
FullyMounted == \A i \in 1..Len(group) : hrouter[Key(group[i])] # NoHandler

\* C1: over any number of Finalize calls the root group is mounted once (mountGroup
\* starts once and calls hrouter.Handle once per route), and a Finalize call made
\* once the first has completed leaves the dispatch table as it was.
C1_FinalizeIdempotent ==
    [][/\ mountRuns' <= 1
       /\ \A i \in 1..MaxRoutes : mountCount'[i] <= 1
       /\ (onceDone' => mountRuns' = 1)
       /\ (onceDone /\ pc' # pc => hrouter' = hrouter)]_vars

\* C1 witness: task 1 mounted a non-empty group and then called Finalize again, on
\* its own; the table still holds every route
C1_Witness ==
    /\ pc[1] = "noop"
    /\ \A t \in Tasks \ {1} : pc[t] = "idle"
    /\ Len(group) = MaxRoutes
    /\ mountRuns = 1
    /\ \A i \in 1..Len(group) : hrouter[Key(group[i])] = VkHandler(i)

Served == resp'.turn # resp.turn

\* some method has a handle for path p
PathRegistered(p) == \E o \in RouteMethods : hrouter[<<o, p>>] # NoHandler

\* the statuses httprouter redirects with
Redirects == {301, 307, 308}

C9_FallbackProxy ==
    [][Served =>
         LET m == resp'.method
             p == resp'.path
         IN  /\ (fallback = "http://upstream" /\ Lookup(m, p) = NoHandler =>
                    /\ resp'.proxyCalls = 1
                    /\ resp'.proxyMethod = m
                    /\ resp'.proxyPath = p
                    /\ resp'.handlerCalls = 0
                    /\ resp'.fallthroughCalls = 0)
             /\ (fallback = "http://upstream" /\ Lookup(m, p) # NoHandler =>
                    resp'.proxyCalls = 0)
             /\ (fallback \in {"", ":bad"} => resp'.proxyCalls = 0)]_vars

\* C9 witness: after Finalize mounted a route, a request for another (method, path)
\* was handed to the proxy
C9_Witness ==
    /\ fallback = "http://upstream"
    /\ FinalizeReturned
    /\ \E k \in Keys : hrouter[k].kind = "vk"
    /\ resp.proxyCalls = 1
    /\ resp.path = "/a/"
    /\ hrouter[<<"GET", "/a">>] # NoHandler

\* ------------------------------------------------------ claims on the request

\* how many times event (e, n) has happened
Count(e, n) == Cardinality({i \in 1..Len(events) : events[i].ev = e /\ events[i].n = n})

\* the middleware that have run, in the order they ran
MiddlewareRun == SelectSeq(events, LAMBDA x : x.ev = "mw")

\* the augmented handler (augmentHttpHandler / augmentWsHandler) has been invoked
Invoked == rq.pc \notin {"idle", "log", "upgrade"} /\ (route.ws => rq.upgraded)

\* the augmented handler has returned its result to httpHandlerWrap
ChainReturned == Invoked /\ rq.pc \in {"resolve", "ctype", "writeHeader", "write", "logDone", "done"}

\* the augmented handler is over: it has returned or its panic has left it
ChainOver == ChainReturned \/ rq.pc = "aborted"

\* C5: when middleware k is the first to return an error, exactly middleware 1..k
\* have run, in that order, the terminal handler has not run, the result is
\* (nil, that error) and every afterware has run.
C5_MiddlewareShortCircuit ==
    \A k \in 1..MaxMiddleware :
        (/\ ChainReturned
         /\ \E i \in 1..Len(MiddlewareRun) :
               /\ MiddlewareRun[i] = Event("mw", k, "err")
               /\ \A j \in 1..(i - 1) : MiddlewareRun[j].s # "err")
        => /\ Len(MiddlewareRun) = k
           /\ \A j \in 1..k : MiddlewareRun[j].n = j
           /\ Count("inner", 0) = 0
           /\ rq.val = "nil"
           /\ rq.err = "typed" /\ rq.errStatus = 403 /\ rq.errMsg = "forbidden"
           /\ \A a \in 1..route.naw : Count("aw", a) = 1

\* C5 witness: the last of the route's middleware returned an error after the ones
\* before it passed, and the request has been answered
C5_Witness ==
    /\ rq.pc = "done"
    /\ route.nmw = MaxMiddleware
    /\ route.naw = MaxAfterware
    /\ Len(MiddlewareRun) = MaxMiddleware
    /\ MiddlewareRun[MaxMiddleware].s = "err"
    /\ Count("aw", MaxAfterware) = 1

\* C6: each afterware of an invoked augmented handler runs exactly once, whether the
\* chain returns a value or an error, is cut short by a middleware or panics: never
\* twice, and once by the time the handler is over.
C6_AfterwareExactlyOnce ==
    \A a \in 1..MaxAfterware :
        /\ Count("aw", a) <= 1
        /\ (ChainOver /\ a <= route.naw => Count("aw", a) = 1)
        /\ (a > route.naw => Count("aw", a) = 0)

\* C6 witness: a middleware panicked, every afterware ran and the panic went on
C6_Witness ==
    /\ rq.pc = "aborted"
    /\ route.naw = MaxAfterware
    /\ \E i \in 1..Len(events) : events[i].ev = "mw" /\ events[i].s = "panic"
    /\ \A a \in 1..route.naw : Count("aw", a) = 1

\* C7: every request that reaches a mounted route is answered: whatever the outcome
\* of the handler chain, a panic included, once the request is over one status and
\* one body have been written, and an error went through the error resolver before
\* the write.
C7_AlwaysAnswered ==
    rq.pc \in {"done", "aborted"} =>
        /\ w.statusWrites = 1
        /\ w.bodyWrites = 1
        /\ (rq.err # "nil" =>
              \E i, j \in 1..Len(events) :
                  i < j /\ events[i].ev = "resolveError" /\ events[j].ev = "writeHeader")

\* C10: the Content-Type that goes out with the status is the one the response
\* headers held when the handler chain returned, if that was not empty, and the
\* resolver's detected type otherwise, on the value path and on the error path.
C10_ContentTypePrecedence ==
    w.statusWrites >= 1 =>
        IF rq.headerAtReturn # ""
        THEN w.sentContentType = rq.headerAtReturn
        ELSE w.sentContentType = rq.detectedCType

\* C10 witness: on the error path, with the header set by a middleware, the written
\* Content-Type is the middleware's and not the detected text/plain
C10_Witness ==
    /\ rq.pc = "done"
    /\ rq.err = "generic"
    /\ rq.detectedCType = "text/plain"
    /\ rq.headerAtReturn = MwCType
    /\ w.sentContentType = MwCType

\* httpHandlerWrap has resolved the chain's result into status and body
Resolved == ChainReturned /\ rq.pc # "resolve"

\* httpHandlerWrap has written the status and the body
Written == Resolved /\ rq.pc \in {"logDone", "done"}

\* how many times event e has happened, whatever its number
Times(e) == Cardinality({i \in 1..Len(events) : events[i].ev = e})

\* C11: when the chain returns an error, the status and body resolved and then
\* written are the error's alone, whatever value came with it: a TypedError's own
\* status and message, 500 and the text of any other error; the value resolver
\* runs only when the error is nil.
C11_ErrorAlone ==
    /\ (Resolved /\ rq.err # "nil") =>
          /\ rq.status = (IF rq.err = "typed" THEN rq.errStatus ELSE 500)
          /\ rq.body = rq.errMsg
          /\ Times("resolveError") = 1
    /\ (Written /\ rq.err # "nil") =>
          /\ w.status = (IF rq.err = "typed" THEN rq.errStatus ELSE 500)
          /\ w.body = rq.errMsg
    /\ (Times("resolveValue") > 0 => rq.err = "nil")

\* C11 witness: the handler returned a value together with a TypedError, and the
\* response written is the error's
C11_Witness ==
    /\ rq.pc = "done"
    /\ rq.val = "struct"
    /\ rq.err = "typed"
    /\ w.status = 404
    /\ w.body = "not found"

\* the response written for a nil error is status st and body b, and the resolver
\* detected content type ct
ValueAnswer(st, b, ct) ==
    /\ rq.status = st /\ rq.body = b /\ rq.detectedCType = ct
    /\ w.status = st /\ w.body = b

\* C12: with a nil error every value is resolved and written: a TypedResponse as
\* its own status (200 when unset) and body, bytes as 200 and the bytes with no
\* detected content type, any other non-nil value as 200, its JSON encoding and
\* application/json, nil as 200 and an empty body.
C12_ValueResolution ==
    (Written /\ rq.err = "nil") =>
        CASE rq.val = "response" -> ValueAnswer(200, "resp", "")
          [] rq.val = "response201" -> ValueAnswer(201, "resp", "")
          [] rq.val = "bytes" -> ValueAnswer(200, "raw", "")
          [] rq.val = "nil" -> ValueAnswer(200, "", "")
          [] OTHER -> /\ rq.status = 200 /\ w.status = 200
                      /\ rq.detectedCType = "application/json"

\* C12 amended: as C12 for a TypedResponse, bytes, nil and a value JSON encodes;
\* a value with no JSON encoding is answered 500 with a generic message.
C12_ValueResolutionAmended ==
    (Written /\ rq.err = "nil") =>
        CASE rq.val = "response" -> ValueAnswer(200, "resp", "")
          [] rq.val = "response201" -> ValueAnswer(201, "resp", "")
          [] rq.val = "bytes" -> ValueAnswer(200, "raw", "")
          [] rq.val = "nil" -> ValueAnswer(200, "", "")
          [] rq.val = "struct" -> ValueAnswer(200, "{json}", "application/json")
          [] rq.val = "unencodable" ->
                 ValueAnswer(500, "Internal Server Error", "text/plain")

\* C12 witness: a value with no JSON encoding, returned with a nil error, has been
\* written as a 500
C12_Witness ==
    /\ rq.pc = "done"
    /\ rq.err = "nil"
    /\ rq.val = "unencodable"
    /\ w.status = 500
    /\ w.body = "Internal Server Error"

\* the afterware that have run, in the order they ran
AfterwareRun == SelectSeq(events, LAMBDA x : x.ev = "aw")

\* C13: the middleware run in list order and all of them before the terminal
\* handler; the afterware run in list order and only after the middleware and the
\* handler are over; when every middleware passes the terminal handler runs exactly
\* once and its value and error are the augmented handler's result.
C13_ChainOrder ==
    /\ \A j \in 1..Len(MiddlewareRun) : MiddlewareRun[j].n = j
    /\ \A j \in 1..Len(AfterwareRun) : AfterwareRun[j].n = j
    /\ \A i, j \in 1..Len(events) :
          i < j =>
             /\ (events[i].ev = "inner" => events[j].ev # "mw")
             /\ (events[i].ev = "aw" => events[j].ev \notin {"mw", "inner"})
    /\ Times("inner") <= 1
    /\ (Times("inner") = 1 =>
          /\ Len(MiddlewareRun) = route.nmw
          /\ \A j \in 1..route.nmw : MiddlewareRun[j].s \in {"ok", "setCT"})
    /\ (ChainReturned /\ \A j \in 1..Len(MiddlewareRun) : MiddlewareRun[j].s # "err") =>
          /\ Times("inner") = 1
          /\ rq.val = rq.innerVal
          /\ rq.err = rq.innerErr

\* C13 witness: every middleware passed, the handler returned a value and an error,
\* every afterware ran and the request has been answered
C13_Witness ==
    /\ rq.pc = "done"
    /\ route.nmw = MaxMiddleware
    /\ route.naw = MaxAfterware
    /\ Len(MiddlewareRun) = MaxMiddleware
    /\ Len(AfterwareRun) = MaxAfterware
    /\ Times("inner") = 1
    /\ rq.innerVal = "bytes" /\ rq.val = "bytes"
    /\ rq.innerErr = "generic" /\ rq.err = "generic"

\* the Content-Type header as the middleware and the terminal handler left it,
\* before any afterware ran
ChainCType ==
    LET S == {i \in 1..Len(events) :
                 events[i].ev \in {"mw", "inner"} /\ events[i].s = "setCT"}
        last == CHOOSE i \in S : \A j \in S : j <= i
    IN  IF S = {} THEN ""
        ELSE IF events[last].ev = "mw" THEN MwCType ELSE HandlerCType

\* C15: afterware cannot alter the response: the status and body written are the
\* chain's result resolved, and the content type written is the one the middleware
\* and the handler left, else the detected one, whatever the afterware did to the
\* response headers through the Context.
C15_AfterwareCannotAlter ==
    Written =>
        /\ w.sentContentType = (IF ChainCType # "" THEN ChainCType ELSE rq.detectedCType)
        /\ LET res == IF rq.err # "nil"
                      THEN errorOrOtherToBytes(rq.err, rq.errStatus, rq.errMsg)
                      ELSE responseOrOtherToBytes(rq.val)
           IN  w.status = res.status /\ w.body = res.body

\* wsHandlerWrap has returned its result to httpHandlerWrap
WsReturned == route.ws /\ rq.pc \in {"resolve", "ctype", "writeHeader", "write", "logDone", "done"}

\* the upgrade has been attempted and failed, or succeeded
UpgradeFailed == \E i \in 1..Len(events) : events[i] = Event("upgrade", 0, "failed")
UpgradeOk == \E i \in 1..Len(events) : events[i] = Event("upgrade", 0, "ok")

\* C16: the websocket adapter attempts the upgrade exactly once. When it fails the
\* inner websocket handler is never called and the result is (nil, TypedError) with
\* the status and message the error resolver gives for the upgrade error; when it
\* succeeds the inner handler is called exactly once, with the upgraded connection,
\* and the result is (nil, the inner handler's error).
C16_WsAdapter ==
    /\ Times("upgrade") <= 1
    /\ (~route.ws => Times("upgrade") = 0 /\ Times("wsInner") = 0)
    /\ (route.ws /\ rq.pc \notin {"idle", "log", "upgrade"} => Times("upgrade") = 1)
    /\ UpgradeFailed =>
          /\ Times("wsInner") = 0
          /\ Times("mw") = 0 /\ Times("inner") = 0 /\ Times("aw") = 0
          /\ WsReturned
          /\ rq.val = "nil"
          /\ rq.err = "typed"
          /\ LET e == errorOrOtherToBytes("generic", 0, "bad handshake")
             IN  rq.errStatus = e.status /\ rq.errMsg = e.body
    /\ UpgradeOk =>
          /\ Times("wsInner") = 1
          /\ rq.upgraded
          /\ \A i \in 1..Len(events) :
                events[i].ev = "wsInner" => i > 1 /\ events[i - 1] = Event("upgrade", 0, "ok")
          /\ WsReturned =>
                /\ rq.val = "nil"
                /\ IF Times("inner") = 1
                   THEN rq.err = rq.innerErr
                   ELSE rq.err = "typed" /\ rq.errStatus = 403

\* C16 witness, failure: the upgrade failed and the request was answered with the
\* resolved upgrade error
C16_Witness ==
    /\ rq.pc = "done"
    /\ UpgradeFailed
    /\ w.status = 500
    /\ w.body = "bad handshake"

\* the start line and the completion lines logged so far
StartLines == SelectSeq(events, LAMBDA x : x.ev = "logStart")
DoneLines == SelectSeq(events, LAMBDA x : x.ev = "logDone")

\* C18: the start line is logged at debug when the path is in quietRoutes as the
\* request starts, at info otherwise, and the completion line of the request is
\* logged at the severity of its start line, whatever quietRoutes has become.
C18_LogSeverity ==
    [][/\ (rq.pc = "log" /\ rq'.pc # "log") =>
             /\ Len(StartLines') = 1
             /\ StartLines'[1].s = (IF route.path \in quietRoutes THEN "debug" ELSE "info")
       /\ \A i \in 1..Len(DoneLines') :
             Len(StartLines') = 1 /\ DoneLines'[i].s = StartLines'[1].s]_vars

\* C18 witness: the path became quiet after the start line was logged at info, and
\* the completion line was logged at info too
C18_Witness ==
    /\ rq.pc = "done"
    /\ route.path \in quietRoutes
    /\ Len(StartLines) = 1 /\ StartLines[1].s = "info"
    /\ Len(DoneLines) = 1 /\ DoneLines[1].s = "info"

\* the place of an event in the sequence of a request: Context construction and
\* scope seeding, start line, handler chain, resolution, content-type decision,
\* status write, body write, completion line
Phase(e) ==
    CASE e.ev = "ctx" -> 1
      [] e.ev = "logStart" -> 2
      [] e.ev \in {"upgrade", "wsInner", "mw", "inner", "aw"} -> 3
      [] e.ev \in {"resolveError", "resolveValue"} -> 4
      [] e.ev = "contentType" -> 5
      [] e.ev = "writeHeader" -> 6
      [] e.ev = "write" -> 7
      [] e.ev = "logDone" -> 8

\* C19: the events of a request happen in the order Context construction and scope
\* seeding, start line, handler chain, resolution, content-type decision, status
\* write, body write, completion line; each happens at most once, none before the
\* one it follows has happened, and the completion line carries the written status.
C19_EventOrder ==
    /\ \A i, j \in 1..Len(events) :
          i < j =>
             /\ Phase(events[i]) <= Phase(events[j])
             /\ (Phase(events[i]) = Phase(events[j]) => Phase(events[i]) = 3)
    /\ \A j \in 1..Len(events) :
          Phase(events[j]) > 1 =>
             \E i \in 1..(j - 1) : Phase(events[i]) = Phase(events[j]) - 1
    /\ \A j \in 1..Len(events) :
          events[j].ev = "logDone" => w.statusWrites = 1 /\ events[j].n = w.status
    /\ rq.pc = "done" => \A p \in 1..8 : \E i \in 1..Len(events) : Phase(events[i]) = p

\* C19 witness: a request went through every event, its completion line carrying
\* the 404 that was written
C19_Witness ==
    /\ rq.pc = "done"
    /\ w.status = 404
    /\ events[1].ev = "ctx"
    /\ events[2].ev = "logStart"
    /\ events[Len(events)] = Event("logDone", 404, rq.logFn)
    /\ events[Len(events) - 1].ev = "write"
    /\ events[Len(events) - 2].ev = "writeHeader"

\* C20: for a websocket route httpHandlerWrap calls w.WriteHeader and w.Write only
\* when the upgrade failed; after a successful upgrade it makes neither call,
\* whatever error the inner handler returned.
C20_NoWriteAfterUpgrade ==
    route.ws =>
        /\ (rq.upgraded => w.statusWrites = 0 /\ w.bodyWrites = 0)
        /\ (w.statusWrites > 0 \/ w.bodyWrites > 0 => UpgradeFailed)

\* ----------------------------------------------------- claims on WrapHandler

\* the positions of the non-nil middleware of WrapHandler's argument
NonNil == {k \in 1..Len(wrap.mw) : wrap.mw[k]}

\* C14: a request to the handler WrapHandler(handler, mw1, ..., mwn) returned goes
\* through the last non-nil middleware first, then the ones before it in reverse
\* order, and reaches the core handler last; nil entries are skipped, and with no
\* middleware the handler returned is the one given.
C14_WrapOrder ==
    /\ \A k \in 1..Len(wrap.trace) : wrap.trace[k] \in NonNil \cup {0}
    /\ Len(wrap.trace) > 0 =>
          wrap.trace[1] = (IF NonNil = {} THEN 0
                           ELSE CHOOSE k \in NonNil : \A j \in NonNil : j <= k)
    /\ \A k \in 1..(Len(wrap.trace) - 1) :
          /\ wrap.trace[k] > wrap.trace[k + 1]
          /\ \A j \in NonNil : ~(wrap.trace[k + 1] < j /\ j < wrap.trace[k])
    /\ (wrap.pc = "served" /\ Len(wrap.trace) = Cardinality(NonNil) + 1) =>
          wrap.trace[Len(wrap.trace)] = 0
    /\ (wrap.pc \in {"returned", "serving", "served"} /\ NonNil = {}) =>
          wrap.handler = <<0>>

\* C14 witness: WrapHandler(core, m1, nil, m3) served a request through m3, then
\* m1, then core
C14_Witness ==
    /\ wrap.pc = "served"
    /\ wrap.mw = <<TRUE, FALSE, TRUE>>
    /\ wrap.trace = <<3, 1, 0>>

\* ---------------------------------------------- claims on concurrent requests

\* request r has been given its Context
HasCtx(r) == reqs[r].pc \in {"chain", "done"}

\* C17: every invocation of the mounted handler has a Context of its own, with a
\* request id of its own, a scope seeded from that id and the response headers of
\* its own request; nothing written for one request, to a Context or to response
\* headers, shows in the Context or the response of another.
C17_RequestIsolation ==
    /\ \A r \in Reqs :
          HasCtx(r) =>
             /\ reqs[r].ctx \in 1..Len(ctxs)
             /\ ctxs[reqs[r].ctx].headers = r
             /\ ctxs[reqs[r].ctx].scope \in
                   {<<"request_id", ctxs[reqs[r].ctx].requestID>>, ScopeOf(r)}
    /\ \A r, q \in Reqs :
          (r # q /\ HasCtx(r) /\ HasCtx(q)) =>
             /\ reqs[r].ctx # reqs[q].ctx
             /\ ctxs[reqs[r].ctx].requestID # ctxs[reqs[q].ctx].requestID
    /\ \A r \in Reqs : hdrs[r] \subseteq {HeaderOf(r)}

\* C17 witness: two requests in flight together, each with a header and a scope it
\* wrote itself
C17_Witness ==
    /\ \A r \in {1, 2} :
          /\ reqs[r].pc = "chain"
          /\ hdrs[r] = {HeaderOf(r)}
          /\ ctxs[reqs[r].ctx].scope = ScopeOf(r)
    /\ reqs[1].ctx # reqs[2].ctx

====
